---- MODULE Spec2Model ----
(***************************************************************************)
(* MultiDataset of few_shot/datasets.py: the concatenation of several      *)
(* indexed datasets into one global index space and one global label       *)
(* space.  A sub-dataset is what MultiDataset reads of it: its             *)
(* datasetid_to_class_id dict, its __len__, its num_classes() and its      *)
(* __getitem__.                                                            *)
(***************************************************************************)
EXTENDS Integers, Sequences, FiniteSets, TLC

VARIABLES
    state,                  \* "new" before MultiDataset(...), then "ready" or "failed"
    dataset_list,           \* self.dataset_list
    datasetid_to_class_id,  \* self.datasetid_to_class_id (a dict: global index -> class id)
    result,                 \* outcome of the last call made by the sequential caller
    readers,                \* per concurrent reader: the position inside its call
    observed                \* every outcome a reader's call has returned so far

vars == <<state, dataset_list, datasetid_to_class_id, result, readers, observed>>

(***************************************************************************)
(* Bounds of the model.                                                    *)
(***************************************************************************)
\* length of dataset_list
MaxDatasets == 2
\* total number of items over the whole dataset_list
MaxTotal == 2
\* local class ids of a sub-dataset are drawn from 0..MaxClassId
MaxClassId == 1
\* a nested MultiDataset is built over at most this many sub-datasets
MaxInner == 1
\* calls are made with indices -MaxNegative .. total length + MaxBeyond
MaxNegative == 1
MaxBeyond == 1
\* concurrent readers
NumReaders == 2

ClassIds == 0 .. MaxClassId
ClassCounts == 0 .. (MaxClassId + 1)
Readers == 1 .. NumReaders

(***************************************************************************)
(* Python values.                                                          *)
(***************************************************************************)
\* the value None, and an int, as what a call may return
PyNone == [isNone |-> TRUE, int |-> 0]
PyInt(n) == [isNone |-> FALSE, int |-> n]

\* dict(): keys are integers
EmptyDict == [k \in {} |-> 0]

\* dict(zip(map(lambda id: id + index_offset, d.keys()),
\*          map(lambda class_id: class_id + class_id_offset, d.values())))
DictShift(d, index_offset, class_id_offset) ==
    [k \in {j + index_offset : j \in DOMAIN d} |-> d[k - index_offset] + class_id_offset]

\* d.update(e): the entries of e replace those of d with the same key
DictUpdate(d, e) ==
    [k \in (DOMAIN d) \cup (DOMAIN e) |-> IF k \in DOMAIN e THEN e[k] ELSE d[k]]

(***************************************************************************)
(* Sub-datasets.  A leaf is a dataset indexed from a directory (Meta,      *)
(* MiniImageNet, OmniglotDataset); a "multi" is a MultiDataset used as a   *)
(* sub-dataset.                                                            *)
(***************************************************************************)
Leaf(d, n) ==
    [kind |-> "leaf", datasetid_to_class_id |-> d, n_classes |-> n, dataset_list |-> <<>>]

NoInstance == [dataset |-> Leaf(EmptyDict, 0), item |-> -1]

\* outcomes of a call
Raise(e) ==
    [ok |-> FALSE, err |-> e, dataset_id |-> -1, index |-> 0,
     instance |-> NoInstance, label |-> -1, value |-> PyNone]
ReturnPair(i, l) ==
    [ok |-> TRUE, err |-> "", dataset_id |-> i, index |-> l,
     instance |-> NoInstance, label |-> -1, value |-> PyNone]
ReturnItem(inst, lab) ==
    [ok |-> TRUE, err |-> "", dataset_id |-> -1, index |-> 0,
     instance |-> inst, label |-> lab, value |-> PyNone]
ReturnValue(v) ==
    [ok |-> TRUE, err |-> "", dataset_id |-> -1, index |-> 0,
     instance |-> NoInstance, label |-> -1, value |-> v]

\* Meta.__len__: len(self.df); the dicts made from df have one key per row
Meta_len(ds) == Cardinality(DOMAIN ds.datasetid_to_class_id)

\* Meta.num_classes
Meta_num_classes(ds) == PyInt(ds.n_classes)

\* Meta.__getitem__: two dict lookups, each a KeyError on a missing key
Meta_getitem(ds, item) ==
    IF item \in DOMAIN ds.datasetid_to_class_id
    THEN ReturnItem([dataset |-> ds, item |-> item], ds.datasetid_to_class_id[item])
    ELSE Raise("KeyError")

(***************************************************************************)
(* MultiDataset.                                                           *)
(***************************************************************************)
RECURSIVE dataset_len(_)
RECURSIVE sum_len(_, _)
RECURSIVE sum_num_classes(_, _)
RECURSIVE dataset_getitem(_, _)

\* sum([len(dataset) for dataset in dl[1..k]])
sum_len(dl, k) ==
    IF k = 0 THEN 0 ELSE sum_len(dl, k - 1) + dataset_len(dl[k])

\* a slip: the number of sub-datasets instead of the number of items
MultiDataset_len_count(dl) == Len(dl)

\* MultiDataset.__len__
MultiDataset_len(dl) == sum_len(dl, Len(dl))

\* len(dataset) for a member of dataset_list
dataset_len(ds) ==
    IF ds.kind = "leaf" THEN Meta_len(ds) ELSE MultiDataset_len(ds.dataset_list)

\* MultiDataset.num_classes: the sum is computed and dropped; the call returns None
MultiDataset_num_classes(dl) ==
    LET total == sum_num_classes(dl, Len(dl))
    IN  PyNone

\* dataset.num_classes() for a member of dataset_list
dataset_num_classes(ds) ==
    IF ds.kind = "leaf" THEN Meta_num_classes(ds)
    ELSE MultiDataset_num_classes(ds.dataset_list)

\* sum([dataset.num_classes() for dataset in dl[1..k]])
sum_num_classes(dl, k) ==
    IF k = 0 THEN 0 ELSE sum_num_classes(dl, k - 1) + dataset_num_classes(dl[k]).int

\* a slip: index <= len(dataset)
index_in_dataset_inclusive(index, dataset) == index <= dataset_len(dataset)

\* index_mapping, line 375: if index < len(dataset)
index_in_dataset(index, dataset) == index < dataset_len(dataset)

\* index_mapping, lines 374-380; dataset_id counts from 0
RECURSIVE index_mapping_loop(_, _, _)
index_mapping_loop(dl, dataset_id, index) ==
    IF dataset_id >= Len(dl)
    THEN Raise("TypeError")  \* raise(ValueError, '...'): a tuple is no exception
    ELSE IF index_in_dataset(index, dl[dataset_id + 1])
         THEN ReturnPair(dataset_id, index)
         ELSE index_mapping_loop(dl, dataset_id + 1, index - dataset_len(dl[dataset_id + 1]))

\* MultiDataset.index_mapping
index_mapping(dl, index) == index_mapping_loop(dl, 0, index)

\* label_mapping, line 396
next_index_offset(index_offset, dataset) == index_offset + dataset_len(dataset)

\* a slip: the class id offset advanced by the number of items
next_class_id_offset_by_len(class_id_offset, dataset) ==
    class_id_offset + dataset_len(dataset)

\* label_mapping, line 397 (called once num_classes() is known to be an int)
next_class_id_offset(class_id_offset, dataset) ==
    class_id_offset + dataset_num_classes(dataset).int

\* label_mapping, lines 390-397: the loop from the k-th sub-dataset on
RECURSIVE label_mapping_loop(_, _, _, _, _)
label_mapping_loop(dl, k, d, index_offset, class_id_offset) ==
    IF k > Len(dl) THEN [ok |-> TRUE, err |-> "", dict |-> d]
    ELSE LET dataset == dl[k]
             updated == DictUpdate(d, DictShift(dataset.datasetid_to_class_id,
                                                index_offset, class_id_offset))
         IN  IF dataset_num_classes(dataset).isNone
             THEN [ok |-> FALSE, err |-> "TypeError", dict |-> updated]  \* int + None
             ELSE label_mapping_loop(dl, k + 1, updated,
                                     next_index_offset(index_offset, dataset),
                                     next_class_id_offset(class_id_offset, dataset))

\* MultiDataset.label_mapping
label_mapping(dl) == label_mapping_loop(dl, 1, EmptyDict, 0, 0)

\* a slip: the sub-dataset's own label (true_label) is returned
label_lookup_true_label(d, fetched, item) == fetched

\* __getitem__, line 404: label = self.datasetid_to_class_id[item]
label_lookup(d, fetched, item) ==
    IF item \in DOMAIN d THEN ReturnItem(fetched.instance, d[item]) ELSE Raise("KeyError")

\* MultiDataset.__getitem__ of the composite with list dl and label dict d
MultiDataset_getitem(dl, d, item) ==
    LET mapped == index_mapping(dl, item)
    IN  IF ~mapped.ok THEN mapped
        ELSE LET fetched == dataset_getitem(dl[mapped.dataset_id + 1], mapped.index)
             IN  IF ~fetched.ok THEN fetched ELSE label_lookup(d, fetched, item)

\* dataset[index] for a member of dataset_list
dataset_getitem(ds, index) ==
    IF ds.kind = "leaf" THEN Meta_getitem(ds, index)
    ELSE MultiDataset_getitem(ds.dataset_list, ds.datasetid_to_class_id, index)

\* a constructed MultiDataset, as a member of another dataset_list
Multi(dl) ==
    [kind |-> "multi", datasetid_to_class_id |-> label_mapping(dl).dict,
     n_classes |-> 0, dataset_list |-> dl]

(***************************************************************************)
(* The lists MultiDataset is constructed over.                             *)
(***************************************************************************)
\* The members dataset_list may hold (List[Dataset]): any dataset with n items exposing
\* datasetid_to_class_id, __len__ and num_classes(), whatever class id it gives an item
\* and whatever class count it reports.  The keys of its dict are its item indices.
LeavesOfLen(n) == {Leaf(d, c) : d \in [0 .. (n - 1) -> ClassIds], c \in ClassCounts}

\* what Meta's own indexing produces: the class ids are exactly 0..num_classes()-1
IsIndexed(ds) ==
    /\ ds.kind = "leaf"
    /\ {ds.datasetid_to_class_id[j] : j \in DOMAIN ds.datasetid_to_class_id}
           = 0 .. (ds.n_classes - 1)

IndexedOfLen(n) == {ds \in LeavesOfLen(n) : IsIndexed(ds)}


\* the lists a nested MultiDataset is built over: indexed leaves, MaxTotal items at most
RECURSIVE InnerListsOf(_)
InnerListsOf(k) ==
    IF k = 0 THEN {<<>>}
    ELSE LET shorter == InnerListsOf(k - 1)
         IN  shorter \cup
             {Append(l, ds) : l \in {x \in shorter : Len(x) = k - 1},
                              ds \in UNION {IndexedOfLen(n) : n \in 0 .. MaxTotal}}

InnerLists == {l \in InnerListsOf(MaxInner) : MultiDataset_len(l) <= MaxTotal}

\* every sub-dataset a list may hold
SubDatasets ==
    UNION {LeavesOfLen(n) : n \in 0 .. MaxTotal} \cup {Multi(dl) : dl \in InnerLists}

\* lengths [3,5,2], class counts [2,3,1]
ExampleList ==
    << Leaf([j \in 0 .. 2 |-> IF j < 2 THEN 0 ELSE 1], 2),
       Leaf([j \in 0 .. 4 |-> IF j < 2 THEN 0 ELSE IF j < 4 THEN 1 ELSE 2], 3),
       Leaf([j \in 0 .. 1 |-> 0], 1) >>

Indices(dl) == (0 - MaxNegative) .. (MultiDataset_len(dl) + MaxBeyond)
AllIndices == (0 - MaxNegative) .. (MultiDataset_len(ExampleList) + MaxTotal + MaxBeyond)

(***************************************************************************)
(* The sequential caller.                                                  *)
(***************************************************************************)
NoCall == [op |-> "none", arg |-> 0, out |-> ReturnValue(PyNone)]
IdleReader == [pc |-> "idle", op |-> "none", item |-> 0,
               mapped |-> ReturnValue(PyNone), fetched |-> ReturnValue(PyNone),
               out |-> ReturnValue(PyNone)]

Init ==
    /\ state = "new"
    /\ dataset_list = <<>>
    /\ datasetid_to_class_id = EmptyDict
    /\ result = NoCall
    /\ readers = [r \in Readers |-> IdleReader]
    /\ observed = {}

\* the caller prepares each sub-dataset and puts it in the list it will pass
Prepare(ds) ==
    /\ state = "new"
    /\ Len(dataset_list) < MaxDatasets
    /\ MultiDataset_len(dataset_list) + dataset_len(ds) <= MaxTotal
    /\ dataset_list' = Append(dataset_list, ds)
    /\ UNCHANGED <<state, datasetid_to_class_id, result, readers, observed>>

\* the caller prepares the list of three datasets of lengths [3,5,2]
PrepareExample ==
    /\ state = "new"
    /\ dataset_list = <<>>
    /\ dataset_list' = ExampleList
    /\ UNCHANGED <<state, datasetid_to_class_id, result, readers, observed>>

\* MultiDataset.__init__ over the prepared list
Construct ==
    /\ state = "new"
    /\ LET built == label_mapping(dataset_list)
       IN  IF built.ok
           THEN /\ state' = "ready"
                /\ datasetid_to_class_id' = built.dict
           ELSE /\ state' = "failed"
                /\ datasetid_to_class_id' = EmptyDict
    /\ UNCHANGED <<dataset_list, result, readers, observed>>

CallIndexMapping(index) ==
    /\ state = "ready"
    /\ result = NoCall
    /\ index \in Indices(dataset_list)
    /\ result' = [op |-> "index_mapping", arg |-> index,
                  out |-> index_mapping(dataset_list, index)]
    /\ UNCHANGED <<state, dataset_list, datasetid_to_class_id, readers, observed>>

CallGetItem(item) ==
    /\ state = "ready"
    /\ result = NoCall
    /\ item \in Indices(dataset_list)
    /\ result' = [op |-> "getitem", arg |-> item,
                  out |-> MultiDataset_getitem(dataset_list, datasetid_to_class_id, item)]
    /\ UNCHANGED <<state, dataset_list, datasetid_to_class_id, readers, observed>>

CallLen ==
    /\ state = "ready"
    /\ result = NoCall
    /\ result' = [op |-> "len", arg |-> 0,
                  out |-> ReturnValue(PyInt(MultiDataset_len(dataset_list)))]
    /\ UNCHANGED <<state, dataset_list, datasetid_to_class_id, readers, observed>>

CallNumClasses ==
    /\ state = "ready"
    /\ result = NoCall
    /\ result' = [op |-> "num_classes", arg |-> 0,
                  out |-> ReturnValue(MultiDataset_num_classes(dataset_list))]
    /\ UNCHANGED <<state, dataset_list, datasetid_to_class_id, readers, observed>>

\* the caller uses the outcome of its call and is free to make the next one
Take ==
    /\ result # NoCall
    /\ result' = NoCall
    /\ UNCHANGED <<state, dataset_list, datasetid_to_class_id, readers, observed>>

Next ==
    \/ \E ds \in SubDatasets : Prepare(ds)
    \/ PrepareExample
    \/ Construct
    \/ \E index \in AllIndices : CallIndexMapping(index)
    \/ \E item \in AllIndices : CallGetItem(item)
    \/ CallLen
    \/ CallNumClasses
    \/ Take

Spec == Init /\ [][Next]_vars

(***************************************************************************)
(* Concurrent readers.  A reader's __getitem__ reads the shared object in  *)
(* three steps (index_mapping, the sub-dataset's item, the label dict);    *)
(* the steps of different readers interleave.                              *)
(***************************************************************************)
\* the lists the readers' composite is built over
ReaderLists ==
    { <<>>,
      ExampleList,
      <<Leaf(EmptyDict, 0), Leaf(EmptyDict, 0)>>,
      <<Leaf([j \in 0 .. 1 |-> j], 1), Leaf([j \in 0 .. 0 |-> 0], 1)>> }

ReaderItems(dl) ==
    {0 - MaxNegative, MultiDataset_len(dl) - 1, MultiDataset_len(dl) - 1 + MaxBeyond}

PrepareReaderList(dl) ==
    /\ state = "new"
    /\ dataset_list = <<>>
    /\ dl # <<>>
    /\ dataset_list' = dl
    /\ UNCHANGED <<state, datasetid_to_class_id, result, readers, observed>>

Returns(r, op, arg, out) ==
    /\ readers' = [readers EXCEPT ![r] = IdleReader]
    /\ observed' = observed \cup {[op |-> op, arg |-> arg, out |-> out]}

\* __getitem__, line 402: dataset_id, index = self.index_mapping(item)
ReaderMap(r, item) ==
    /\ state = "ready"
    /\ readers[r].pc = "idle"
    /\ item \in ReaderItems(dataset_list)
    /\ LET mapped == index_mapping(dataset_list, item)
       IN  IF mapped.ok
           THEN /\ readers' = [readers EXCEPT ![r] =
                        [IdleReader EXCEPT !.pc = "mapped", !.item = item, !.mapped = mapped]]
                /\ UNCHANGED observed
           ELSE Returns(r, "getitem", item, mapped)
    /\ UNCHANGED <<state, dataset_list, datasetid_to_class_id, result>>

\* __getitem__, line 403: instance, true_label = self.dataset_list[dataset_id][index]
ReaderFetch(r) ==
    /\ state = "ready"
    /\ readers[r].pc = "mapped"
    /\ LET me == readers[r]
           fetched == dataset_getitem(dataset_list[me.mapped.dataset_id + 1], me.mapped.index)
       IN  IF fetched.ok
           THEN /\ readers' = [readers EXCEPT ![r] =
                        [me EXCEPT !.pc = "fetched", !.fetched = fetched]]
                /\ UNCHANGED observed
           ELSE Returns(r, "getitem", me.item, fetched)
    /\ UNCHANGED <<state, dataset_list, datasetid_to_class_id, result>>

\* a slip: the label is popped from the dict instead of read
ReaderLabel_pop(r) ==
    /\ state = "ready"
    /\ readers[r].pc = "fetched"
    /\ Returns(r, "getitem", readers[r].item,
               label_lookup(datasetid_to_class_id, readers[r].fetched, readers[r].item))
    /\ datasetid_to_class_id' =
           [k \in (DOMAIN datasetid_to_class_id) \ {readers[r].item} |-> datasetid_to_class_id[k]]
    /\ UNCHANGED <<state, dataset_list, result>>

\* __getitem__, lines 404-405: the label is read from the dict and the pair returned
ReaderLabel(r) ==
    /\ state = "ready"
    /\ readers[r].pc = "fetched"
    /\ Returns(r, "getitem", readers[r].item,
               label_lookup(datasetid_to_class_id, readers[r].fetched, readers[r].item))
    /\ UNCHANGED <<state, dataset_list, datasetid_to_class_id, result>>

\* len(multi) by a reader
ReaderLen(r) ==
    /\ state = "ready"
    /\ readers[r].pc = "idle"
    /\ Returns(r, "len", 0, ReturnValue(PyInt(MultiDataset_len(dataset_list))))
    /\ UNCHANGED <<state, dataset_list, datasetid_to_class_id, result>>

\* multi.num_classes() by a reader
ReaderNumClasses(r) ==
    /\ state = "ready"
    /\ readers[r].pc = "idle"
    /\ Returns(r, "num_classes", 0, ReturnValue(MultiDataset_num_classes(dataset_list)))
    /\ UNCHANGED <<state, dataset_list, datasetid_to_class_id, result>>

ReaderNext ==
    \/ \E dl \in ReaderLists : PrepareReaderList(dl)
    \/ Construct
    \/ \E r \in Readers, item \in AllIndices : ReaderMap(r, item)
    \/ \E r \in Readers : ReaderFetch(r)
    \/ \E r \in Readers : ReaderLabel(r)
    \/ \E r \in Readers : ReaderLen(r)
    \/ \E r \in Readers : ReaderNumClasses(r)

ReaderSpec == Init /\ [][ReaderNext]_vars

TypeOK ==
    /\ state \in {"new", "ready", "failed"}
    /\ result.op \in {"none", "index_mapping", "getitem", "len", "num_classes"}

(***************************************************************************)
(* What the properties are stated in: the lengths and class counts of the  *)
(* list, and their prefix sums.                                            *)
(***************************************************************************)
RECURSIVE SumTo(_, _)
SumTo(f, k) == IF k = 0 THEN 0 ELSE SumTo(f, k - 1) + f[k]

NumDatasets == Len(dataset_list)
Lengths == [i \in 1 .. NumDatasets |-> Cardinality(DOMAIN dataset_list[i].datasetid_to_class_id)]
Counts == [i \in 1 .. NumDatasets |-> dataset_list[i].n_classes]
TotalLength == SumTo(Lengths, NumDatasets)
TotalClasses == SumTo(Counts, NumDatasets)
\* global index of the first item, and global id of the first class, of the i-th sub-dataset
StartOf(i) == SumTo(Lengths, i - 1)
OffsetOf(i) == SumTo(Counts, i - 1)
\* the local class ids the i-th sub-dataset emits, and the global ids its items are given
LocalIds(i) ==
    {dataset_list[i].datasetid_to_class_id[j] : j \in DOMAIN dataset_list[i].datasetid_to_class_id}
GlobalIds(i) ==
    {datasetid_to_class_id[g] :
        g \in (StartOf(i) .. (StartOf(i) + Lengths[i] - 1)) \cap DOMAIN datasetid_to_class_id}
Contiguous(i) == LocalIds(i) = 0 .. (Counts[i] - 1)
HasNested == \E i \in 1 .. NumDatasets : dataset_list[i].kind = "multi"
Called(op) == state = "ready" /\ result.op = op
InRange(g) == 0 <= g /\ g < TotalLength

ExamplePairs ==
    [g \in {0, 2, 3, 7, 8, 9} |->
        CASE g = 0 -> <<0, 0>> [] g = 2 -> <<0, 2>> [] g = 3 -> <<1, 0>>
          [] g = 7 -> <<1, 4>> [] g = 8 -> <<2, 0>> [] g = 9 -> <<2, 1>>]

(***************************************************************************)
(* C1: for every global_index in [0, total_length), index_mapping returns  *)
(* the one pair (sub_id, local_index) with 0 <= local_index <              *)
(* length(sub_id) and (lengths before sub_id) + local_index =              *)
(* global_index; a sub-dataset of length 0 is never selected; for lengths  *)
(* [3,5,2], indices 0,2,3,7,8,9 resolve to (0,0),(0,2),(1,0),(1,4),(2,0),  *)
(* (2,1).                                                                  *)
(***************************************************************************)
C1_Partition ==
    (Called("index_mapping") /\ InRange(result.arg)) =>
        /\ result.out.ok
        /\ LET i == result.out.dataset_id + 1
               l == result.out.index
           IN  /\ i \in 1 .. NumDatasets
               /\ 0 <= l /\ l < Lengths[i]
               /\ StartOf(i) + l = result.arg
               /\ Lengths[i] # 0
               /\ \A j \in 1 .. NumDatasets : \A m \in 0 .. (Lengths[j] - 1) :
                      StartOf(j) + m = result.arg => (j = i /\ m = l)
        /\ (dataset_list = ExampleList /\ result.arg \in DOMAIN ExamplePairs) =>
               <<result.out.dataset_id, result.out.index>> = ExamplePairs[result.arg]

\* index 7 of the lengths [3,5,2] has been resolved to (1, 4)
C1_Witness ==
    /\ Called("index_mapping")
    /\ dataset_list = ExampleList
    /\ result.arg = 7
    /\ result.out.ok /\ result.out.dataset_id = 1 /\ result.out.index = 4

(***************************************************************************)
(* C2: for every global_index outside [0, total_length), negative ones     *)
(* included, __getitem__ and index_mapping end in an error and return no   *)
(* pair.                                                                   *)
(***************************************************************************)
C2_OutOfRangeRejected ==
    ((Called("index_mapping") \/ Called("getitem")) /\ ~InRange(result.arg)) =>
        ~result.out.ok

(***************************************************************************)
(* C3: num_classes() returns the integer sum of the sub-datasets'          *)
(* num_classes(), never an empty result.                                   *)
(***************************************************************************)
C3_NumClassesIsSum ==
    Called("num_classes") =>
        /\ ~result.out.value.isNone
        /\ result.out.value.int = TotalClasses

(***************************************************************************)
(* C4: for every valid global_index g with index_mapping(g) = (i, l) and   *)
(* c the class id sub-dataset i reports for l, __getitem__(g) returns the  *)
(* item l of sub-dataset i with the label c + offset_i, offset_i the sum   *)
(* of num_classes() of the sub-datasets before i; that is c itself only    *)
(* when offset_i = 0.  With class counts [2,3,1], sub-dataset 1's local    *)
(* ids 0 and 2 become 2 and 4 and sub-dataset 2's local id 0 becomes 5.    *)
(***************************************************************************)
C4_LabelAgreesWithMapper ==
    (Called("getitem") /\ InRange(result.arg)) =>
        LET mapped == index_mapping(dataset_list, result.arg)
            i == mapped.dataset_id + 1
            l == mapped.index
            c == dataset_list[i].datasetid_to_class_id[l]
        IN  /\ mapped.ok
            /\ result.out.ok
            /\ result.out.instance = [dataset |-> dataset_list[i], item |-> l]
            /\ result.out.label = c + OffsetOf(i)
            /\ (result.out.label = c) <=> (OffsetOf(i) = 0)
            /\ (dataset_list = ExampleList /\ i = 2 /\ c = 0) => result.out.label = 2
            /\ (dataset_list = ExampleList /\ i = 2 /\ c = 2) => result.out.label = 4
            /\ (dataset_list = ExampleList /\ i = 3 /\ c = 0) => result.out.label = 5

\* an item of the second sub-dataset with local class id 2 has been returned with label 4
C4_Witness ==
    /\ Called("getitem")
    /\ dataset_list = ExampleList
    /\ result.arg = 7
    /\ result.out.ok /\ result.out.label = 4
    /\ result.out.instance.dataset.datasetid_to_class_id[result.out.instance.item] = 2

(***************************************************************************)
(* C5: when every sub-dataset emits exactly the local class ids            *)
(* [0, num_classes_i), the global ids of sub-dataset i are exactly         *)
(* [offset_i, offset_i + num_classes_i), those of two distinct             *)
(* sub-datasets are disjoint, and their union is [0, total_classes).       *)
(***************************************************************************)
C5_LabelDisjointness ==
    (state = "ready" /\ \A i \in 1 .. NumDatasets : Contiguous(i)) =>
        /\ \A i \in 1 .. NumDatasets :
               GlobalIds(i) = OffsetOf(i) .. (OffsetOf(i) + Counts[i] - 1)
        /\ \A i, j \in 1 .. NumDatasets : i # j => GlobalIds(i) \cap GlobalIds(j) = {}
        /\ UNION {GlobalIds(i) : i \in 1 .. NumDatasets} = 0 .. (TotalClasses - 1)

\* a composite of two sub-datasets that each emit class id 0 (and more) is built
C5_Witness ==
    /\ state = "ready"
    /\ NumDatasets >= 2
    /\ \A i \in 1 .. NumDatasets : Contiguous(i) /\ 0 \in LocalIds(i)
    /\ \E i \in 1 .. NumDatasets : Counts[i] >= 2

RECURSIVE Flatten(_)
Flatten(dl) ==
    IF dl = <<>> THEN <<>>
    ELSE (IF Head(dl).kind = "multi" THEN Flatten(Head(dl).dataset_list) ELSE <<Head(dl)>>)
         \o Flatten(Tail(dl))

FlatCounts == [i \in 1 .. Len(Flatten(dataset_list)) |-> Flatten(dataset_list)[i].n_classes]

(***************************************************************************)
(* C6: a MultiDataset can be a sub-dataset of another MultiDataset: the    *)
(* outer construction succeeds, and the outer length(), num_classes() and  *)
(* get(g) are those of a MultiDataset over the flattened list of leaves.   *)
(***************************************************************************)
C6_RecursiveComposition ==
    (state # "new" /\ HasNested) =>
        /\ state = "ready"
        /\ datasetid_to_class_id = label_mapping(Flatten(dataset_list)).dict
        /\ result.op = "len" =>
               result.out = ReturnValue(PyInt(MultiDataset_len(Flatten(dataset_list))))
        /\ result.op = "num_classes" =>
               result.out = ReturnValue(PyInt(SumTo(FlatCounts, Len(Flatten(dataset_list)))))
        /\ result.op = "getitem" =>
               result.out = MultiDataset_getitem(Flatten(dataset_list),
                                                 datasetid_to_class_id, result.arg)

(***************************************************************************)
(* C7: construction over a list in which some sub-dataset's local class    *)
(* ids are not exactly [0, num_classes_i) ends in an error; no composite   *)
(* with overlapping or out-of-range global class ids is ever constructed.  *)
(***************************************************************************)
C7_FailFast ==
    /\ (state # "new" /\ \E i \in 1 .. NumDatasets : ~Contiguous(i)) => state = "failed"
    /\ state = "ready" =>
           /\ \A i, j \in 1 .. NumDatasets : i # j => GlobalIds(i) \cap GlobalIds(j) = {}
           /\ \A i \in 1 .. NumDatasets : GlobalIds(i) \subseteq 0 .. (TotalClasses - 1)

AllEmpty == \A i \in 1 .. NumDatasets : Lengths[i] = 0

(***************************************************************************)
(* C8: over zero sub-datasets, or sub-datasets all of length 0, length()   *)
(* returns 0 without error and get(global_index) ends in an error for      *)
(* every integer global_index, negative ones included.                     *)
(***************************************************************************)
C8_EmptyComposition ==
    (state = "ready" /\ AllEmpty) =>
        /\ result.op = "len" => result.out = ReturnValue(PyInt(0))
        /\ result.op = "getitem" => ~result.out.ok

\* a negative index has been asked of a composite of sub-datasets of length 0
C8_Witness ==
    /\ Called("getitem")
    /\ NumDatasets >= 1 /\ AllEmpty
    /\ result.arg < 0
    /\ ~result.out.ok

SameCallSameOutcome ==
    \A a, b \in observed : (a.op = b.op /\ a.arg = b.arg) => a.out = b.out

(***************************************************************************)
(* C9: after construction no sequence or interleaving of get, length and   *)
(* num_classes calls changes the sub-dataset list, the sub-datasets or     *)
(* the label map; two get calls with the same global_index return the      *)
(* same pair and length() always returns the same value.                   *)
(***************************************************************************)
C9_ReadOnly ==
    /\ [][state = "ready" =>
            /\ dataset_list' = dataset_list
            /\ datasetid_to_class_id' = datasetid_to_class_id
            /\ state' = "ready"]_vars
    /\ [](SameCallSameOutcome)

\* a get has returned an item while another reader is between two steps of the same get
C9_Witness ==
    /\ state = "ready"
    /\ \E o \in observed : o.op = "getitem" /\ o.out.ok
          /\ \E r \in Readers : readers[r].pc = "fetched" /\ readers[r].item = o.arg
    /\ \E o \in observed : o.op = "len"

KeysAreRanges ==
    \A i \in 1 .. NumDatasets :
        DOMAIN dataset_list[i].datasetid_to_class_id = 0 .. (Lengths[i] - 1)

(***************************************************************************)
(* C10: over sub-datasets whose local index keys are exactly               *)
(* [0, length_i), the key set of the label map is exactly                  *)
(* [0, total_length), so its size equals length(), and every value lies    *)
(* in [0, total_classes).                                                  *)
(***************************************************************************)
C10_TotalLabelMap ==
    (state = "ready" /\ KeysAreRanges) =>
        /\ DOMAIN datasetid_to_class_id = 0 .. (TotalLength - 1)
        /\ Cardinality(DOMAIN datasetid_to_class_id) = MultiDataset_len(dataset_list)
        /\ \A g \in DOMAIN datasetid_to_class_id :
               datasetid_to_class_id[g] \in 0 .. (TotalClasses - 1)
====
